---- MODULE Spec2Model ----
(***************************************************************************)
(* A model of richheader.py: the RichHeader parser of PE "Rich" headers.   *)
(*                                                                         *)
(* Python integers are unbounded, and the values of this program reach     *)
(* 2^63 (an identifier shifted left by 31), beyond TLC's integers.  A      *)
(* Python int is therefore modelled as the sequence of its base-256        *)
(* digits, least significant first, with no leading (most significant)     *)
(* zero digit: 0 is << >>, 0x536e6144 is <<68, 97, 110, 83>>.  A bytes     *)
(* object is the sequence of its bytes, offsets counted from 0 as in       *)
(* Python.                                                                 *)
(***************************************************************************)
EXTENDS Integers, Sequences, FiniteSets, TLC

VARIABLES py3, filehandle, header, compids, valid_checksum, checksum,
          raised, results, reused

vars == <<py3, filehandle, header, compids, valid_checksum, checksum,
          raised, results, reused>>

(***************************************************************************)
(* Python integer arithmetic on digit sequences.                           *)
(***************************************************************************)
Max(a, b) == IF a >= b THEN a ELSE b

Min(a, b) == IF a <= b THEN a ELSE b

Digit(x, i) == IF 1 <= i /\ i <= Len(x) THEN x[i] ELSE 0

RECURSIVE Norm(_)
Norm(x) ==
  IF x = << >> THEN << >>
  ELSE IF x[Len(x)] = 0 THEN Norm(SubSeq(x, 1, Len(x) - 1))
  ELSE x

RECURSIVE FromNat(_)
FromNat(n) == IF n = 0 THEN << >> ELSE <<n % 256>> \o FromNat(n \div 256)

RECURSIVE ToNat(_)
ToNat(x) == IF x = << >> THEN 0 ELSE x[1] + 256 * ToNat(Tail(x))

RECURSIVE BitOp(_, _, _, _)
BitOp(op, a, b, n) ==
  IF n = 0 THEN 0
  ELSE LET p == a % 2
           q == b % 2
           r == CASE op = "or"  -> IF p + q > 0 THEN 1 ELSE 0
                  [] op = "xor" -> (p + q) % 2
                  [] op = "and" -> p * q
       IN  r + 2 * BitOp(op, a \div 2, b \div 2, n - 1)

\* the three operations on 4-bit numbers, tabulated once
NibbleTable ==
  [op \in {"or", "xor", "and"} |->
     [a \in 0..15 |-> [b \in 0..15 |-> BitOp(op, a, b, 4)]]]

\* a bitwise operation on two digits, from their low and high halves
DigitOp(op, a, b) ==
  NibbleTable[op][a % 16][b % 16] + 16 * NibbleTable[op][a \div 16][b \div 16]

BitwiseDigits(op, x, y) ==
  Norm([i \in 1..Max(Len(x), Len(y)) |-> DigitOp(op, Digit(x, i), Digit(y, i))])

\* TLC evaluates an operator's argument again at every use of the parameter:
\* the operators below bind their arguments once, as the elements of
\* one-element sets, and compute on the bound values.
Bitwise(op, x, y) ==
  CHOOSE r \in {BitwiseDigits(op, a, b) : a \in {x}, b \in {y}} : TRUE

\* x | y
Or(x, y) == Bitwise("or", x, y)

\* x ^ y
Xor(x, y) == Bitwise("xor", x, y)

\* x & y
And(x, y) == Bitwise("and", x, y)

RECURSIVE AddFrom(_, _, _, _)
AddFrom(x, y, i, carry) ==
  IF i > Max(Len(x), Len(y))
  THEN IF carry = 0 THEN << >> ELSE <<carry>>
  ELSE <<(Digit(x, i) + Digit(y, i) + carry) % 256>>
       \o AddFrom(x, y, i + 1, (Digit(x, i) + Digit(y, i) + carry) \div 256)

\* x + y
Add(x, y) == CHOOSE r \in {Norm(AddFrom(a, b, 1, 0)) : a \in {x}, b \in {y}} : TRUE

ShlDigits(x, q, m) ==
  Norm([i \in 1..(Len(x) + q + 1) |->
         ((Digit(x, i - q) * m) % 256) + ((Digit(x, i - q - 1) * m) \div 256)])

\* x << s, for a native shift count s >= 0
Shl(x, s) ==
  CHOOSE r \in {ShlDigits(a, q, m) : a \in {x}, q \in {s \div 8}, m \in {2 ^ (s % 8)}} : TRUE

ShrDigits(x, q, m) ==
  Norm([i \in 1..Max(Len(x) - q, 0) |->
         (Digit(x, i + q) \div m) + ((Digit(x, i + q + 1) % m) * (256 \div m))])

\* x >> s, for a native shift count s >= 0
Shr(x, s) ==
  CHOOSE r \in {ShrDigits(a, q, m) : a \in {x}, q \in {s \div 8}, m \in {2 ^ (s % 8)}} : TRUE

\* x % n as a native number, for a native n > 0
RECURSIVE ModNat(_, _)
ModNat(x, n) ==
  IF x = << >> THEN 0
  ELSE (x[1] + 256 * ModNat(Tail(x), n)) % n

(***************************************************************************)
(* bytes and struct.                                                       *)
(***************************************************************************)
\* data[a:b] of a bytes object, with Python's clamping of the bounds
Slice(data, a, b) ==
  LET lo == Min(Max(a, 0), Len(data))
      hi == Min(Max(b, 0), Len(data))
  IN  IF hi <= lo THEN << >> ELSE SubSeq(data, lo + 1, hi)

\* data.find(sub): the least offset at which sub occurs, or -1
Find(data, sub) ==
  LET hits == {i \in 0..(Len(data) - Len(sub)) : Slice(data, i, i + Len(sub)) = sub}
  IN  IF hits = {} THEN -1 ELSE CHOOSE i \in hits : \A j \in hits : i <= j

NoException == [type |-> "none", line |-> 0]

Raise(t, l) == [type |-> t, line |-> l]

\* struct.unpack('<L', data)[0]: defined on exactly four bytes
CanUnpack(data) == Len(data) = 4

unpack(data) == Norm(data)

\* struct.pack('<L', x): the four little-endian bytes of x < 2^32
pack(x) == [i \in 1..4 |-> Digit(x, i)]

(***************************************************************************)
(* RichHeader.__init__: the four attributes the constructor sets.  The     *)
(* other attributes (filehandle, header, compids, valid_checksum,          *)
(* checksum) do not exist until a parse assigns them: an attribute is      *)
(* modelled as << >> while it does not exist and as <<value>> once set.    *)
(***************************************************************************)
checksum_mask == <<68, 97, 110, 83>>

rich_text == <<82, 105, 99, 104>>

pe_start == 60

pe_field_length == 4

Unset == << >>

IsSet(attr) == attr # << >>

NewObject ==
  [filehandle |-> Unset, header |-> Unset, compids |-> Unset,
   valid_checksum |-> Unset, checksum |-> Unset]

(***************************************************************************)
(* A dict is a function from keys to values; {} is the empty function.     *)
(***************************************************************************)
EmptyDict == << >>

Updated(d, k, v) == [x \in (DOMAIN d) \cup {k} |-> IF x = k THEN v ELSE d[x]]

\* d[k] = v
SetItem(d, k, v) == CHOOSE r \in {Updated(a, b, c) : a \in {d}, b \in {k}, c \in {v}} : TRUE

items(d) == {<<k, d[k]>> : k \in DOMAIN d}

(***************************************************************************)
(* _get_file_header: f.seek(0x3c); f.read(4); unpack; f.seek(0);           *)
(* f.read(end).  A read past the end of the file returns what is there.    *)
(* Under Python 3 the bytes read never equal the str '', so the test of    *)
(* line 78 is False for every file; under Python 2 it is True when the     *)
(* read returned nothing.                                                  *)
(***************************************************************************)
\* f.read(end) from position 0, end a Python int
read(file, end) ==
  IF Len(end) > 3 \/ ToNat(end) >= Len(file) THEN file
  ELSE Slice(file, 0, ToNat(end))

is_empty_str(py, data) == ~py /\ data = << >>

_get_file_header(py, file) ==
  CHOOSE r \in
    {IF is_empty_str(py, data)
     THEN [exc |-> Raise("RichHeaderNotPE", 80), data |-> << >>]
     ELSE IF ~CanUnpack(data)
     THEN [exc |-> Raise("struct.error", 81), data |-> << >>]
     ELSE [exc |-> NoException, data |-> read(file, unpack(data))] :
       data \in {Slice(file, pe_start, pe_start + pe_field_length)}} : TRUE

(***************************************************************************)
(* _validate_checksum.  The running sums are kept as a sequence: its first *)
(* element is the seed of line 133, each further element is self.checksum  *)
(* after one pass through lines 145-146 or 150-151, and the last one is    *)
(* the value compared on line 153.                                         *)
(***************************************************************************)
mask32 == <<255, 255, 255, 255>>

\* a seed that keeps what an earlier call left in self.checksum
checksum_init_stale(old, rich_header_start) ==
  IF IsSet(old) THEN Add(old[1], FromNat(rich_header_start))
  ELSE FromNat(rich_header_start)

\* line 133
checksum_init(old, rich_header_start) == FromNat(rich_header_start)

\* a skipped window one byte too wide
skipped_wide(i) == pe_start <= i /\ i <= pe_start + pe_field_length

\* line 137
skipped(i) == pe_start <= i /\ i <= pe_start + pe_field_length - 1

\* line 145: (temp << (i % 32)) | (temp >> (32 - (i % 32))) & 0xff
header_term(temp, i) ==
  Or(Shl(FromNat(temp), i % 32),
     And(Shr(FromNat(temp), 32 - (i % 32)), FromNat(255)))

\* line 150: (k << v % 32 | k >> (32 - (v % 32)))
compid_term(k, v) ==
  Or(Shl(k, ModNat(v, 32)), Shr(k, 32 - ModNat(v, 32)))

\* lines 145-146 and 150-151: self.checksum += term; self.checksum &= 0xffffffff
accumulate(acc, term) == And(Add(acc, term), mask32)

\* lines 136-146 for i in range(lo, hi), appended to the running sums so far.
\* The loop over a range is the loop over its first half, then, from the sums
\* that leaves, the loop over its second half.
RECURSIVE header_sums(_, _, _, _)
header_sums(hdr, lo, hi, sums) ==
  IF hi <= lo THEN sums
  ELSE IF hi = lo + 1
  THEN IF skipped(lo) THEN sums
       ELSE Append(sums, accumulate(sums[Len(sums)], header_term(hdr[lo + 1], lo)))
  ELSE CHOOSE r \in {header_sums(hdr, (lo + hi) \div 2, hi, left) :
                     left \in {header_sums(hdr, lo, (lo + hi) \div 2, sums)}} : TRUE

\* lines 149-151, over the pairs not yet visited, in the dict's own order
RECURSIVE compid_sums(_, _)
compid_sums(pairs, sums) ==
  IF pairs = {} THEN sums
  ELSE CHOOSE r \in {compid_sums(pairs \ {kv},
                                 Append(sums, accumulate(sums[Len(sums)],
                                                         compid_term(kv[1], kv[2])))) :
                     kv \in {CHOOSE p \in pairs : TRUE}} : TRUE

running_sums(old, hdr, table, rich_header_start) ==
  CHOOSE r \in {compid_sums(items(table), hs) :
                hs \in {header_sums(hdr, 0, rich_header_start,
                                    <<checksum_init(old, rich_header_start)>>)}} : TRUE

_validate_checksum(old, hdr, table, rich_header_start, stored) ==
  CHOOSE r \in {[checksum |-> sums[Len(sums)], valid |-> (sums[Len(sums)] = stored)] :
                sums \in {running_sums(old, hdr, table, rich_header_start)}} : TRUE

(***************************************************************************)
(* _parse.  The result is the object after the call and the exception the  *)
(* call raised: an exception leaves the attributes as they were when it    *)
(* was raised.                                                             *)
(***************************************************************************)
\* entries read from the start marker itself
compid_start_index_noskip(rich_header_start) == rich_header_start

\* line 112
compid_start_index(rich_header_start) == rich_header_start + 16

\* line 116: range(start, stop, 8) yields start, start + 8, ... while < stop
range(start, stop, step) ==
  [n \in 1..(IF stop > start THEN (stop - start + step - 1) \div step ELSE 0)
     |-> start + (n - 1) * step]

\* lines 116-119, over the offsets still to visit; table is self.compids
RECURSIVE decode(_, _, _, _)
decode(hdr, offsets, checksum_value, table) ==
  IF offsets = << >> THEN [exc |-> NoException, compids |-> table]
  ELSE IF ~CanUnpack(Slice(hdr, Head(offsets), Head(offsets) + 4))
  THEN [exc |-> Raise("struct.error", 117), compids |-> table]
  ELSE IF ~CanUnpack(Slice(hdr, Head(offsets) + 4, Head(offsets) + 8))
  THEN [exc |-> Raise("struct.error", 118), compids |-> table]
  ELSE CHOOSE r \in
         {decode(hdr, Tail(offsets), checksum_value, SetItem(table, compid, count)) :
            compid \in {Xor(unpack(Slice(hdr, Head(offsets), Head(offsets) + 4)),
                            checksum_value)},
            count  \in {Xor(unpack(Slice(hdr, Head(offsets) + 4, Head(offsets) + 8)),
                            checksum_value)}} : TRUE

\* line 115
new_compids(old) == EmptyDict

\* lines 104-105: struct.pack('<LLLL', ...)[0]
start_marker(checksum_value) ==
  LET packed == pack(Xor(checksum_value, checksum_mask)) \o pack(checksum_value)
                \o pack(checksum_value) \o pack(checksum_value)
  IN  <<packed[1]>>

\* lines 111-122, once both markers are located; s1 is self with header set
parse_entries(s1, hdr, compid_end_index, checksum_value, rich_header_start) ==
  CHOOSE r \in
    {IF dec.exc # NoException
     THEN [self |-> [s1 EXCEPT !.compids = <<dec.compids>>], exc |-> dec.exc]
     ELSE CHOOSE q \in
            {[self |-> [s1 EXCEPT !.compids = <<dec.compids>>,
                                  !.checksum = <<val.checksum>>,
                                  !.valid_checksum = <<val.valid>>],
              exc  |-> NoException] :
               val \in {_validate_checksum(s1.checksum, hdr, dec.compids,
                                           rich_header_start, checksum_value)}} : TRUE :
       dec \in {decode(hdr,
                       range(compid_start_index(rich_header_start), compid_end_index, 8),
                       checksum_value, new_compids(s1.compids))}} : TRUE

\* lines 101-109, once "Rich" is found at compid_end_index
parse_checksum(s1, hdr, compid_end_index) ==
  CHOOSE r \in
    {IF ~CanUnpack(checksum_text)
     THEN [self |-> s1, exc |-> Raise("struct.error", 102)]
     ELSE CHOOSE q \in
            {IF rich_header_start = -1
             THEN [self |-> s1, exc |-> Raise("RichHeaderNotFound", 109)]
             ELSE parse_entries(s1, hdr, compid_end_index, unpack(checksum_text),
                                rich_header_start) :
               rich_header_start \in {Find(hdr, start_marker(unpack(checksum_text)))}} : TRUE :
       checksum_text \in {Slice(hdr, compid_end_index + Len(rich_text),
                                compid_end_index + Len(rich_text) + 4)}} : TRUE

\* lines 95-99, once the header is read
parse_header(s1, hdr) ==
  CHOOSE r \in
    {IF compid_end_index = -1
     THEN [self |-> s1, exc |-> Raise("RichHeaderNotFound", 97)]
     ELSE parse_checksum(s1, hdr, compid_end_index) :
       compid_end_index \in {Find(hdr, rich_text)}} : TRUE

_parse(self, py, file) ==
  CHOOSE r \in
    {IF got.exc # NoException THEN [self |-> self, exc |-> got.exc]
     ELSE parse_header([self EXCEPT !.header = <<got.data>>], got.data) :
       got \in {_get_file_header(py, file)}} : TRUE

(***************************************************************************)
(* The reference the properties are stated against: a rotate-left inside a *)
(* 32-bit field as a permutation of the 32 bits, and the checksum as one   *)
(* sum reduced modulo 2^32.                                                *)
(***************************************************************************)
Bits32(x) == [j \in 0..31 |-> (Digit(x, (j \div 8) + 1) \div (2 ^ (j % 8))) % 2]

FromBits32(b) ==
  Norm([i \in 1..4 |->
         b[8 * (i - 1)] + 2 * b[8 * (i - 1) + 1] + 4 * b[8 * (i - 1) + 2]
         + 8 * b[8 * (i - 1) + 3] + 16 * b[8 * (i - 1) + 4] + 32 * b[8 * (i - 1) + 5]
         + 64 * b[8 * (i - 1) + 6] + 128 * b[8 * (i - 1) + 7]])

rotl32(x, s) ==
  LET b == Bits32(x) IN FromBits32([j \in 0..31 |-> b[(j + 32 - s) % 32]])

Low32(x) == Norm([i \in 1..4 |-> Digit(x, i)])

RECURSIVE RefHeaderSum(_, _, _)
RefHeaderSum(hdr, lo, hi) ==
  IF hi <= lo THEN << >>
  ELSE IF hi = lo + 1
  THEN IF lo >= 60 /\ lo < 64 THEN << >> ELSE rotl32(FromNat(hdr[lo + 1]), lo % 32)
  ELSE LET mid == (lo + hi) \div 2
       IN  Add(RefHeaderSum(hdr, lo, mid), RefHeaderSum(hdr, mid, hi))

RECURSIVE RefTableSum(_)
RefTableSum(pairs) ==
  IF pairs = {} THEN << >>
  ELSE LET kv == CHOOSE p \in pairs : TRUE
       IN  Add(rotl32(kv[1], ModNat(kv[2], 32)), RefTableSum(pairs \ {kv}))

RefChecksum(hdr, blockStart, table) ==
  Low32(Add(FromNat(blockStart),
            Add(RefHeaderSum(hdr, 0, blockStart), RefTableSum(items(table)))))

\* the table a list of (identifier, count) pairs denotes, a later pair
\* overriding an earlier one with the same identifier
RECURSIVE TableOf(_)
TableOf(pairs) ==
  IF pairs = << >> THEN EmptyDict
  ELSE LET last == pairs[Len(pairs)]
       IN  SetItem(TableOf(SubSeq(pairs, 1, Len(pairs) - 1)), last[1], last[2])

(***************************************************************************)
(* The files the parser is run on.  A linked image is what link.exe        *)
(* writes: the DOS header with e_lfanew at 0x3c, a stub, the block         *)
(* {C xor mask, C, C, C}, the encoded pairs, "Rich", C, and the PE         *)
(* signature at e_lfanew, C being the checksum of what precedes.  The      *)
(* other files are damaged or forged variants of linked images.            *)
(***************************************************************************)
MaxEntries == 2

MaxPad == 1

Zeros(n) == [i \in 1..n |-> 0]

dos_header ==
  <<77, 90, 144, 0, 3, 0, 0, 0, 4, 0, 0, 0, 255, 255, 0, 0,
    184, 0, 0, 0, 0, 0, 0, 0, 64, 0, 0, 0, 0, 0, 0, 0>>
  \o Zeros(26) \o <<129, 255>>

pe_signature == <<80, 69, 0, 0>>

stub_code == <<14, 31, 186, 14, 0, 180, 9, 205, 33, 184, 1, 76, 205, 33>>

Stub(p) == SubSeq(stub_code, 1, p)

Pair(k) == <<FromNat(65537 * k + 30000 * (k - 1)), FromNat(5 + 27 * (k - 1))>>

Pairs(n) == [k \in 1..n |-> Pair(k)]

RECURSIVE Encode(_, _)
Encode(pairs, C) ==
  IF pairs = << >> THEN << >>
  ELSE pack(Xor(pairs[1][1], C)) \o pack(Xor(pairs[1][2], C)) \o Encode(Tail(pairs), C)

\* the header region: prefix, marker block, pairs, junk, "Rich", C
Region(prefix, C, pairs, junk) ==
  prefix \o pack(Xor(C, checksum_mask)) \o pack(C) \o pack(C) \o pack(C)
  \o Encode(pairs, C) \o junk \o rich_text \o pack(C)

\* a file whose header region is Region(...), with e_lfanew pointing just after it
Image(stub, C, pairs, junk) ==
  LET n == 64 + Len(stub) + 16 + 8 * Len(pairs) + Len(junk) + 8
  IN  Region(dos_header \o pack(FromNat(n)) \o stub, C, pairs, junk) \o pe_signature

LinkChecksum(stub, pairs) ==
  RefChecksum(dos_header \o Zeros(4) \o stub, 64 + Len(stub), TableOf(pairs))

\* file descriptors: the bytes, and how they were made
Desc(bytes, shape, C, pairs, base, off) ==
  [bytes |-> bytes, shape |-> shape, C |-> C, pairs |-> pairs, base |-> base, off |-> off]

Linked(stub, pairs) ==
  LET C == LinkChecksum(stub, pairs)
  IN  Desc(Image(stub, C, pairs, << >>), "linked", C, pairs, << >>, -1)

\* one byte of a file replaced
Patch(bytes, off, val) == [bytes EXCEPT ![off + 1] = val]

Flip(d, off, val) ==
  Desc(Patch(d.bytes, off, val), d.shape, d.C, d.pairs, d.bytes, off)

\* the e_lfanew field rewritten
SetLfanew(d, n) ==
  Desc(SubSeq(d.bytes, 1, 60) \o pack(FromNat(n)) \o SubSeq(d.bytes, 65, Len(d.bytes)),
       "relinked", d.C, d.pairs, << >>, -1)

Other(bytes) == Desc(bytes, "other", << >>, << >>, << >>, -1)

TagByte(C) == DigitOp("xor", Digit(C, 1), checksum_mask[1])

Base == Linked(Stub(MaxPad), Pairs(1))

RichOffsetOfBase == 64 + MaxPad + 16 + 8

\* linked images: every number of entries behind the longest stub, and one
\* entry behind every shorter stub
GoodFiles ==
  [i \in 1..(MaxEntries + 1) |-> Linked(Stub(MaxPad), Pairs(i - 1))]
  \o [i \in 1..MaxPad |-> Linked(Stub(i - 1), Pairs(1))]

DamagedFiles ==
  << \* a duplicated identifier
     Linked(Stub(MaxPad), <<Pair(1), Pair(2), <<Pair(1)[1], FromNat(9)>>>>),
     \* four bytes between the last pair and "Rich"
     Desc(Image(Stub(MaxPad), Base.C, Pairs(1), <<1, 2, 3, 4>>),
          "junk", Base.C, Pairs(1), << >>, -1),
     \* one byte of the DOS header changed
     Flip(Base, 32, 1),
     Flip(Base, 2, TagByte(Base.C)),
     \* e_lfanew beyond the end of the file
     SetLfanew(Base, Len(Base.bytes) + 16),
     \* e_lfanew inside the stored checksum
     SetLfanew(Base, RichOffsetOfBase + 6),
     \* e_lfanew before the block
     SetLfanew(Base, 64),
     \* "Rich" with a checksum whose start-marker byte occurs nowhere
     Other(dos_header \o pack(FromNat(72)) \o rich_text \o <<0, 0, 0, 0>> \o pe_signature),
     \* "Rich" with a checksum whose start-marker byte first occurs after the tag
     Other(dos_header \o pack(FromNat(72)) \o rich_text \o <<5, 65, 0, 0>> \o pe_signature) >>

\* files too short to hold the four bytes of e_lfanew
ShortLengths == <<0, 61>>

ShortFiles == [i \in 1..Len(ShortLengths) |-> Other(SubSeq(Base.bytes, 1, ShortLengths[i]))]

Files == GoodFiles \o DamagedFiles \o ShortFiles

FileIds == 1..Len(Files)

(***************************************************************************)
(* The state machine: one RichHeader object and the calls made on it.      *)
(* py3 is the interpreter the module runs under (the source handles both,  *)
(* lines 139-144).  filehandle, header, compids, valid_checksum and        *)
(* checksum are the object's attributes; filehandle holds the number of    *)
(* the file the handle was opened on.  raised is the exception the most    *)
(* recent parse call raised.  results is << >> unless the most recent call *)
(* was get_results, and then holds what that call raised and returned.     *)
(* reused tells that the most recent parse call was made on an object      *)
(* that had been parsed on before.                                         *)
(***************************************************************************)
\* the files on disk, by path
Paths == FileIds

\* the streams the caller opens itself: the image without entries, the image
\* with one entry, and the empty file
Streams == {1, 2, Len(GoodFiles) + Len(DamagedFiles) + 1}

Self ==
  [filehandle |-> filehandle, header |-> header, compids |-> compids,
   valid_checksum |-> valid_checksum, checksum |-> checksum]

Init ==
  /\ py3 \in BOOLEAN
  /\ filehandle = Unset
  /\ header = Unset
  /\ compids = Unset
  /\ valid_checksum = Unset
  /\ checksum = Unset
  /\ raised = NoException
  /\ results = << >>
  /\ reused = FALSE

\* self.filehandle = ...; self._parse()
Parse(f) ==
  \E r \in {_parse([Self EXCEPT !.filehandle = <<f>>], py3, Files[f].bytes)} :
      /\ filehandle' = r.self.filehandle
      /\ header' = r.self.header
      /\ compids' = r.self.compids
      /\ valid_checksum' = r.self.valid_checksum
      /\ checksum' = r.self.checksum
      /\ raised' = r.exc
      /\ results' = << >>
      /\ reused' = IsSet(filehandle)
      /\ UNCHANGED py3

parse_path(path) == Parse(path)

parse_filehandle(fh) == Parse(fh)

\* return self.compids.items(), self.valid_checksum
get_results ==
  /\ results' =
       IF IsSet(compids) /\ IsSet(valid_checksum)
       THEN <<[exc |-> NoException, value |-> <<items(compids[1]), valid_checksum[1]>>]>>
       ELSE <<[exc |-> Raise("AttributeError", 55), value |-> << >>]>>
  /\ UNCHANGED <<py3, filehandle, header, compids, valid_checksum, checksum,
                 raised, reused>>

Next ==
  \/ \E path \in Paths : parse_path(path)
  \/ \E fh \in Streams : parse_filehandle(fh)
  \/ get_results

Spec == Init /\ [][Next]_vars

(***************************************************************************)
(* Vocabulary of the properties below.                                     *)
(***************************************************************************)
\* the most recent call on the object was a parse call
AfterParse == IsSet(filehandle) /\ results = << >>

\* the file the most recent parse call was made on
LastFile == Files[filehandle[1]]

\* the most recent call was a parse call that returned normally
ParsedOk == AfterParse /\ raised = NoException

\* offset of the first "Rich" in a header region, or -1
RichTagOffset(hdr) == Find(hdr, rich_text)

\* the four bytes after "Rich", little-endian
StoredChecksum(hdr) == unpack(Slice(hdr, RichTagOffset(hdr) + 4, RichTagOffset(hdr) + 8))

\* offset of the first byte equal to the low byte of checksum XOR "DanS", or -1
BlockStart(hdr) == Find(hdr, <<TagByte(pack(StoredChecksum(hdr)))>>)

\* the byte source's little-endian field at 0x3C
PeOffset(bytes) == ToNat(unpack(Slice(bytes, pe_start, pe_start + pe_field_length)))

\* a fresh object's parse of the given bytes
Fresh(bytes) == _parse(NewObject, py3, bytes)

\* the table read from whole strides only: floor((stop - start) / 8) of them
FloorStrides(hdr, start, stop, C) ==
  IF stop <= start THEN EmptyDict
  ELSE decode(hdr, [i \in 1..((stop - start) \div 8) |-> start + 8 * (i - 1)],
              C, EmptyDict).compids

(***************************************************************************)
(* C1.  Round trip: a header region made of any prefix, the 16-byte start  *)
(* block, the encoded pairs, "Rich" and the checksum C parses without      *)
(* error to stored checksum C and exactly the table of the pairs.          *)
(***************************************************************************)
C1_RoundTrip ==
  (AfterParse /\ LastFile.shape = "linked") =>
     /\ raised = NoException
     /\ StoredChecksum(header[1]) = Norm(LastFile.C)
     /\ compids = <<TableOf(LastFile.pairs)>>

(***************************************************************************)
(* C2.  After a successful parse the validator's checksum is blockStart    *)
(* plus the bytes before blockStart outside 0x3C..0x3F, each rotated left  *)
(* in 32 bits by its offset, plus each id rotated left by its count, all   *)
(* modulo 2^32; every running sum is below 2^32; and the validity flag is  *)
(* true exactly when that value equals the stored checksum.                *)
(***************************************************************************)
C2_Checksum ==
  ParsedOk =>
    \E hdr \in {header[1]} :
    \E ref \in {RefChecksum(hdr, BlockStart(hdr), compids[1])} :
    \E sums \in {running_sums(Unset, hdr, compids[1], BlockStart(hdr))} :
       /\ checksum[1] = ref
       /\ sums[Len(sums)] = ref
       /\ \A i \in 1..Len(sums) : Len(sums[i]) <= 4
       /\ valid_checksum[1] = (ref = StoredChecksum(hdr))

\* a valid image whose stub has a byte at 0x40 and whose table has one count
\* that is a multiple of 32 and one that is not
C2_Witness ==
  /\ ParsedOk
  /\ valid_checksum = <<TRUE>>
  /\ BlockStart(header[1]) > pe_start + pe_field_length
  /\ \E k \in DOMAIN compids[1] : ModNat(compids[1][k], 32) = 0
  /\ \E k \in DOMAIN compids[1] : ModNat(compids[1][k], 32) # 0

(***************************************************************************)
(* C3.  The table holds floor((richTagOffset - (blockStart+16)) / 8)       *)
(* strides: a trailing partial stride is not decoded.                      *)
(***************************************************************************)
C3_FloorStrides ==
  ParsedOk =>
    \E hdr \in {header[1]} :
       compids[1] = FloorStrides(hdr, BlockStart(hdr) + 16, RichTagOffset(hdr),
                                 StoredChecksum(hdr))

(***************************************************************************)
(* C4.  Changing one byte before blockStart, outside 0x3C..0x3F, of an     *)
(* image that parses as valid gives a parse that reports the same table    *)
(* and validity false.                                                     *)
(***************************************************************************)
C4_FlipDetected ==
  (AfterParse /\ LastFile.off >= 0) =>
    \E r \in {Fresh(LastFile.base)} :
      ( /\ r.exc = NoException
        /\ r.self.valid_checksum = <<TRUE>>
        /\ LastFile.off < BlockStart(r.self.header[1])
        /\ ~skipped(LastFile.off)
        /\ LastFile.bytes[LastFile.off + 1] # LastFile.base[LastFile.off + 1] )
      => /\ raised = NoException
         /\ valid_checksum = <<FALSE>>
         /\ compids = r.self.compids

(***************************************************************************)
(* C5.  A byte source shorter than 0x40 bytes makes the parse fail with    *)
(* RichHeaderNotPE and with nothing else.                                  *)
(***************************************************************************)
C5_ShortIsNotPE ==
  (AfterParse /\ Len(LastFile.bytes) < pe_start + pe_field_length) =>
     raised.type = "RichHeaderNotPE"

(***************************************************************************)
(* C6.  A byte source of at least 0x40 bytes whose field at 0x3C exceeds   *)
(* its length makes the parse fail with RichHeaderNotPE; no header region  *)
(* shorter than that field's value is ever parsed.                         *)
(***************************************************************************)
C6_BeyondEndIsNotPE ==
  ( /\ AfterParse
    /\ Len(LastFile.bytes) >= pe_start + pe_field_length
    /\ PeOffset(LastFile.bytes) > Len(LastFile.bytes) ) =>
     raised.type = "RichHeaderNotPE"

(***************************************************************************)
(* C7.  A parse call ends in one of three ways: normally, with             *)
(* RichHeaderNotPE, or with RichHeaderNotFound.                            *)
(***************************************************************************)
C7_ThreeOutcomes ==
  AfterParse => raised.type \in {"none", "RichHeaderNotPE", "RichHeaderNotFound"}

(***************************************************************************)
(* C8.  The outcome of a parse call depends on the bytes alone: whatever   *)
(* was parsed on the object before, it is the outcome a fresh object       *)
(* gives on the same bytes (the same error, or the same table and          *)
(* validity).                                                              *)
(***************************************************************************)
C8_Deterministic ==
  AfterParse =>
    \E r \in {Fresh(LastFile.bytes)} :
       /\ raised = r.exc
       /\ raised = NoException =>
            /\ compids = r.self.compids
            /\ valid_checksum = r.self.valid_checksum

\* a second or later parse on the object returned a non-empty valid table
C8_Witness ==
  /\ ParsedOk
  /\ reused
  /\ valid_checksum = <<TRUE>>
  /\ DOMAIN compids[1] # {}

(***************************************************************************)
(* C9.  get_results returns nothing produced by a parse call earlier than  *)
(* the most recent one, also when the most recent one failed.              *)
(***************************************************************************)
C9_NoStaleResults ==
  (results # << >> /\ results[1].exc = NoException) => raised = NoException

(***************************************************************************)
(* C10.  Once "Rich", the four checksum bytes and the start byte are       *)
(* found, the parse completes: the decoder and the validator do not fail,  *)
(* a table and a validity flag are set, and the table is empty when        *)
(* blockStart + 16 >= richTagOffset.                                       *)
(***************************************************************************)
C10_CompletesAfterLocator ==
  AfterParse =>
    /\ raised.line \in {0, 80, 81, 97, 102, 109}
    /\ raised.line \notin {80, 81} =>
         \E hdr \in {header[1]} :
           ( /\ RichTagOffset(hdr) # -1
             /\ CanUnpack(Slice(hdr, RichTagOffset(hdr) + 4, RichTagOffset(hdr) + 8))
             /\ BlockStart(hdr) # -1 )
           => /\ raised = NoException
              /\ IsSet(compids)
              /\ valid_checksum \in {<<TRUE>>, <<FALSE>>}
              /\ BlockStart(hdr) + 16 >= RichTagOffset(hdr) => compids = <<EmptyDict>>

\* the start byte lies after "Rich": the table is empty and the flag false
C10_Witness ==
  /\ ParsedOk
  /\ BlockStart(header[1]) > RichTagOffset(header[1])
  /\ compids = <<EmptyDict>>
  /\ valid_checksum = <<FALSE>>

====
